---- MODULE Spec2Model ----
(***************************************************************************)
(* A model of chatServer: a select()-driven broadcast server.  One         *)
(* connection pool (conn_pool_t), one outbound message list per            *)
(* connection (conn_t.write_msg_head .. write_msg_tail), and the event     *)
(* loop of main().                                                         *)
(*                                                                         *)
(* The handlers of chatServer.c are operators over a machine record m:     *)
(*   m.pool    the conn_pool_t                                             *)
(*   m.open    the client descriptors the process holds open               *)
(*   m.calls   the library calls (write, free, close) made so far by the   *)
(*             handler that is running                                     *)
(*   m.ret     the value the handler returned                              *)
(*   m.crashed the handler ran into undefined behaviour and the process    *)
(*             was aborted there                                           *)
(* A message list is the sequence of nodes reached from write_msg_head by  *)
(* following next.  A node that was passed to free() and is still reached  *)
(* from write_msg_head stays in the sequence with freed = TRUE: touching   *)
(* it is undefined behaviour, whose outcome ("stale": the old contents are *)
(* still there; "abort": the allocator aborts the process) is chosen by    *)
(* the environment each time.                                              *)
(***************************************************************************)
EXTENDS Integers, Sequences, FiniteSets, TLC

\* Number of client descriptors the operating system hands out.
MaxClients == 2

\* Number of non-empty chunks read from clients in one run.
MaxChunks == 3

\* The listening descriptor returned by initializeServer(): 0, 1 and 2 are
\* the standard streams, so socket() returns 3.
WelcomeSocket == 3

\* Number of client descriptors handed out when the pool's handlers are
\* driven one call at a time (SpecApi).
MaxApiClients == 3

\* Number of non-empty chunks read in one run of SpecApi.
MaxApiChunks == 2

\* The descriptors accept() can return under the event loop (Spec), and when
\* the handlers are driven one call at a time (SpecApi).
ClientFds == (WelcomeSocket + 1)..(WelcomeSocket + MaxClients)

ApiFds == (WelcomeSocket + 1)..(WelcomeSocket + MaxApiClients)

\* The chunks a client may send: one byte, and two bytes (so that a write
\* can be short).
Chunks == {<<"a">>, <<"b", "C">>}

WriteResults == {"full", "short", "fail"}

UBOutcomes == {"stale", "abort"}

Max(S) == CHOOSE x \in S : \A y \in S : y <= x

Min(S) == CHOOSE x \in S : \A y \in S : x <= y

\* ------------------------------------------------------------------------
\* Data structures (chatServer.h)

\* msg_t.  id is history: the ordinal of the chunk the node is a copy of.
\* freed is the allocator's view of the node.
Msg(message, size, id) ==
    [message |-> message, size |-> size, id |-> id, freed |-> FALSE]

\* conn_t: the descriptor and the list write_msg_head .. write_msg_tail.
Conn(fd) == [fd |-> fd, write_msg |-> <<>>]

\* One library call of a handler.  bad: the call is made on an object that
\* was already released (free of a freed node, write from a freed node,
\* close of a closed descriptor).
Call(call, fd, id, n, bad) ==
    [call |-> call, fd |-> fd, id |-> id, n |-> n, bad |-> bad]

LiveFds(p) == {p.conn_head[i].fd : i \in 1..Len(p.conn_head)}

\* The position in the list of the first connection whose fd is sd, as the
\* loops "while (temp != NULL && temp->fd != sd)" find it; 0 for NULL.
FindConn(sd, p) ==
    LET hits == {i \in 1..Len(p.conn_head) : p.conn_head[i].fd = sd}
    IN  IF hits = {} THEN 0 ELSE Min(hits)

ConnOf(sd, p) == p.conn_head[FindConn(sd, p)]

\* ------------------------------------------------------------------------
\* Pure helpers

toupper(c) ==
    CASE c = "a" -> "A"
      [] c = "b" -> "B"
      [] c = "c" -> "C"
      [] OTHER   -> c

capitalizeMessage(message, length) ==
    [i \in 1..Len(message) |->
        IF i <= length THEN toupper(message[i]) ELSE message[i]]

initPool ==
    [maxfd           |-> -1,
     nready          |-> 0,
     read_set        |-> {},
     ready_read_set  |-> {},
     write_set       |-> {},
     ready_write_set |-> {},
     conn_head       |-> <<>>,
     nr_conns        |-> 0]   \* unsigned: a value below 0 stands for its wrap-around

\* close(fd): the descriptor leaves the process's table.
CloseFd(fd, m) ==
    [m EXCEPT !.calls = Append(@, Call("close", fd, 0, 0, fd \notin m.open)),
              !.open  = @ \ {fd}]

\* updateMaxFd that never lowers maxfd.
updateMaxFd_NeverLowers(m, welcome_socket) ==
    [m EXCEPT !.pool.maxfd = Max({welcome_socket, m.pool.maxfd} \cup LiveFds(m.pool))]

updateMaxFd(m, welcome_socket) ==
    [m EXCEPT !.pool.maxfd = Max({welcome_socket} \cup LiveFds(m.pool))]

\* createMessage: ok is the outcome of its two malloc calls.
createMessage(buffer, len, id, ok) ==
    IF ok THEN <<Msg(SubSeq(buffer, 1, len), len, id)>> ELSE <<>>

\* ------------------------------------------------------------------------
\* Connection pool (chatServer.c)

\* addConn without the increment of nr_conns.
addConn_NoCount(sd, m, ok) ==
    IF ~ok
    THEN [CloseFd(sd, m) EXCEPT !.ret = -1]
    ELSE [m EXCEPT !.pool.conn_head = <<Conn(sd)>> \o @,
                   !.pool.read_set  = @ \cup {sd},
                   !.ret            = 0]

\* addConn: ok is the outcome of malloc(sizeof(conn_t)).
addConn(sd, m, ok) ==
    IF ~ok
    THEN [CloseFd(sd, m) EXCEPT !.ret = -1]
    ELSE [m EXCEPT !.pool.conn_head = <<Conn(sd)>> \o @,
                   !.pool.read_set  = @ \cup {sd},
                   !.pool.nr_conns  = @ + 1,
                   !.ret            = 0]

\* The loop of freeMessagesInQueue from node k of the list of the connection
\* at position i: free(msg->message); free(msg).  A node that is already
\* freed is read and freed again.
RECURSIVE FreeWalk(_, _, _, _)
FreeWalk(i, k, m, ub) ==
    LET conn == m.pool.conn_head[i]
        msg  == conn.write_msg[k]
    IN  IF k > Len(conn.write_msg) THEN m
        ELSE IF msg.freed /\ ub = "abort" THEN [m EXCEPT !.crashed = TRUE]
        ELSE FreeWalk(i, k + 1,
                 [m EXCEPT !.calls = Append(@, Call("free", conn.fd, msg.id, 0, msg.freed)),
                           !.pool.conn_head[i].write_msg[k].freed = TRUE],
                 ub)

freeMessagesInQueue(i, m, ub) ==
    IF i = 0 THEN m
    ELSE LET m1 == FreeWalk(i, 1, m, ub)
         IN  IF m1.crashed THEN m1
             ELSE [m1 EXCEPT !.pool.conn_head[i].write_msg = <<>>]

\* The list without the connection at position i.
Unlink(conn_head, i) ==
    SubSeq(conn_head, 1, i - 1) \o SubSeq(conn_head, i + 1, Len(conn_head))

\* removeConn without FD_CLR(sd, &pool->write_set).
removeConn_KeepsWriteInterest(sd, m, ub) ==
    LET i == FindConn(sd, m.pool)
    IN  IF i = 0 THEN [m EXCEPT !.ret = -1]
        ELSE LET m1 == freeMessagesInQueue(i, m, ub)
                 m2 == [m1 EXCEPT !.pool.conn_head = Unlink(@, i),
                                  !.pool.read_set  = @ \ {sd}]
                 m3 == CloseFd(sd, m2)
             IN  IF m1.crashed THEN m1
                 ELSE [m3 EXCEPT !.pool.nr_conns = @ - 1,
                                 !.ret           = 0]

\* removeConn without the "not found" return.
removeConn_NoFoundCheck(sd, m, ub) ==
    LET i  == FindConn(sd, m.pool)
        m1 == freeMessagesInQueue(i, m, ub)
        m2 == [m1 EXCEPT !.pool.conn_head = Unlink(@, i),
                         !.pool.read_set  = @ \ {sd},
                         !.pool.write_set = @ \ {sd}]
        m3 == CloseFd(sd, m2)
    IN  IF m1.crashed THEN m1
        ELSE [m3 EXCEPT !.pool.nr_conns = @ - 1,
                        !.ret           = 0]

removeConn(sd, m, ub) ==
    LET i == FindConn(sd, m.pool)
    IN  IF i = 0 THEN [m EXCEPT !.ret = -1]
        ELSE LET m1 == freeMessagesInQueue(i, m, ub)
                 m2 == [m1 EXCEPT !.pool.conn_head = Unlink(@, i),
                                  !.pool.read_set  = @ \ {sd},
                                  !.pool.write_set = @ \ {sd}]
                 m3 == CloseFd(sd, m2)
             IN  IF m1.crashed THEN m1
                 ELSE [m3 EXCEPT !.pool.nr_conns = @ - 1,
                                 !.ret           = 0]

\* addMsg without the test that skips the sender.
addMsg_EchoesSender(sd, buffer, len, m, id, fails) ==
    LET Queued(conn) ==
            LET newMsg == createMessage(buffer, len, id, conn.fd \notin fails)
            IN  IF newMsg = <<>> THEN conn
                ELSE [conn EXCEPT !.write_msg = @ \o newMsg]
    IN  [m EXCEPT !.pool.conn_head = [i \in 1..Len(@) |-> Queued(@[i])],
                  !.pool.write_set = @ \cup (LiveFds(m.pool) \ fails),
                  !.ret            = 0]

\* addMsg that leaves its loop at the first createMessage that returns NULL.
addMsg_StopsAtFailure(sd, buffer, len, m, id, fails) ==
    LET conn_head == m.pool.conn_head
        Reached(i) == \A j \in 1..i : conn_head[j].fd = sd \/ conn_head[j].fd \notin fails
        Queued(i) ==
            IF conn_head[i].fd = sd \/ ~Reached(i) THEN conn_head[i]
            ELSE [conn_head[i] EXCEPT !.write_msg = @ \o createMessage(buffer, len, id, TRUE)]
    IN  [m EXCEPT !.pool.conn_head = [i \in 1..Len(@) |-> Queued(i)],
                  !.pool.write_set = @ \cup {conn_head[i].fd : i \in
                                        {j \in 1..Len(conn_head) :
                                            conn_head[j].fd # sd /\ Reached(j)}},
                  !.ret            = 0]

\* addMsg: fails is the set of recipients for which createMessage returns
\* NULL; id is the ordinal of the chunk in buffer.
addMsg(sd, buffer, len, m, id, fails) ==
    LET Queued(conn) ==
            LET newMsg == createMessage(buffer, len, id, conn.fd \notin fails)
            IN  IF conn.fd = sd \/ newMsg = <<>> THEN conn
                ELSE IF conn.write_msg = <<>>
                     THEN [conn EXCEPT !.write_msg = newMsg]
                     ELSE [conn EXCEPT !.write_msg = @ \o newMsg]
    IN  [m EXCEPT !.pool.conn_head = [i \in 1..Len(@) |-> Queued(@[i])],
                  !.pool.write_set = @ \cup ((LiveFds(m.pool) \ {sd}) \ fails),
                  !.ret            = 0]

\* The value write(sd, msg->message, msg->size) returns.
Written(r, size) ==
    CASE r = "fail"  -> -1
      [] r = "short" -> IF size > 1 THEN size - 1 ELSE size
      [] OTHER       -> size

\* The loop of writeToClient from node k of the list of the connection at
\* position i.  res[k] is the result of the write of node k.
RECURSIVE WriteWalk(_, _, _, _, _)
WriteWalk(i, k, m, res, ub) ==
    LET conn    == m.pool.conn_head[i]
        msg     == conn.write_msg[k]
        written == Written(res[k], msg.size)
    IN  IF k > Len(conn.write_msg) THEN [m |-> m, is_error |-> -1]
        ELSE IF msg.freed /\ ub = "abort"
        THEN [m |-> [m EXCEPT !.crashed = TRUE], is_error |-> -1]
        ELSE IF written <= 0
        THEN [m |-> [m EXCEPT !.calls =
                        Append(@, Call("write", conn.fd, msg.id, written, msg.freed))],
              is_error |-> 1]
        ELSE WriteWalk(i, k + 1,
                 [m EXCEPT !.calls = @ \o
                               <<Call("write", conn.fd, msg.id, written, msg.freed),
                                 Call("free", conn.fd, msg.id, 0, msg.freed)>>,
                           !.pool.conn_head[i].write_msg[k].freed = TRUE],
                 res, ub)

\* writeToClient without the "not found" return: conn is NULL and
\* conn->write_msg_head is read through it.
writeToClient_NoFoundCheck(sd, m, res, ub) ==
    LET i == FindConn(sd, m.pool)
    IN  IF i = 0 THEN [m EXCEPT !.crashed = TRUE]
        ELSE LET w  == WriteWalk(i, 1, m, res, ub)
                 m1 == IF w.is_error # 1
                       THEN [w.m EXCEPT !.pool.conn_head[i].write_msg = <<>>]
                       ELSE w.m
             IN  IF w.m.crashed THEN w.m
                 ELSE [m1 EXCEPT !.pool.write_set = @ \ {sd},
                                 !.ret            = 0]

writeToClient(sd, m, res, ub) ==
    LET i == FindConn(sd, m.pool)
    IN  IF i = 0 THEN [m EXCEPT !.ret = -1]
        ELSE LET w  == WriteWalk(i, 1, m, res, ub)
                 m1 == IF w.is_error # 1
                       THEN [w.m EXCEPT !.pool.conn_head[i].write_msg = <<>>]
                       ELSE w.m
             IN  IF w.m.crashed THEN w.m
                 ELSE [m1 EXCEPT !.pool.write_set = @ \ {sd},
                                 !.ret            = 0]

\* ------------------------------------------------------------------------
\* Handlers of the event loop (chatServer.c)

\* acceptNewConnection: new_socket is what accept() returned.
acceptNewConnection(welcome_socket, m, new_socket, ok) ==
    IF new_socket < 0 THEN [m EXCEPT !.ret = -1]
    ELSE LET m1 == addConn(new_socket, [m EXCEPT !.open = @ \cup {new_socket}], ok)
         IN  IF m1.ret < 0
             THEN [CloseFd(new_socket, m1) EXCEPT !.ret = -1]
             ELSE [updateMaxFd(m1, welcome_socket) EXCEPT !.ret = 0]

\* processDataFromConnection without the updateMaxFd after removeConn.
processDataFromConnection_NoUpdate(sd, m, welcome_socket, rd, id, fails, ub) ==
    IF rd.n > 0
    THEN addMsg(sd, capitalizeMessage(rd.data, rd.n), rd.n, m, id, fails)
    ELSE IF rd.n = 0
    THEN removeConn(sd, m, ub)
    ELSE m

\* processDataFromConnection that removes the connection on a read error too.
processDataFromConnection_ErrorRemoves(sd, m, welcome_socket, rd, id, fails, ub) ==
    IF rd.n > 0
    THEN addMsg(sd, capitalizeMessage(rd.data, rd.n), rd.n, m, id, fails)
    ELSE LET m1 == removeConn(sd, m, ub)
         IN  IF m1.crashed THEN m1 ELSE updateMaxFd(m1, welcome_socket)

\* processDataFromConnection: rd is what read() returned, [n, data].
processDataFromConnection(sd, m, welcome_socket, rd, id, fails, ub) ==
    IF rd.n > 0
    THEN addMsg(sd, capitalizeMessage(rd.data, rd.n), rd.n, m, id, fails)
    ELSE IF rd.n = 0
    THEN LET m1 == removeConn(sd, m, ub)
         IN  IF m1.crashed THEN m1 ELSE updateMaxFd(m1, welcome_socket)
    ELSE m

\* ------------------------------------------------------------------------
\* State

VARIABLES
    pool,        \* the conn_pool_t of main()
    open,        \* the descriptors the process holds open
    end_server,  \* the flag set by intHandler
    pc,          \* where main() is: "top", "blocked", "rd", "wr", "check",
                 \* "cleanup", "done", "aborted"
    sd,          \* the loop variable of the for loop of main()
    nchunks,     \* history: the number of non-empty chunks read so far
    sent,        \* history: per descriptor, the ids of the nodes written to
                 \* the connection that holds it, in the order of the writes
    ev,          \* history: the handler the last step ran, its inputs, its
                 \* calls and its result; op = "none" after any other step
    handled      \* history: the handlers main() called so far in the pass of
                 \* the for loop it is in, each as <<sd, "read" or "write">>

vars == <<pool, open, end_server, pc, sd, nchunks, sent, ev, handled>>

Machine == [pool |-> pool, open |-> open, calls |-> <<>>, ret |-> 0, crashed |-> FALSE]

Event(op, s, n, data, fails, m) ==
    [op |-> op, sd |-> s, n |-> n, data |-> data, fails |-> fails,
     calls |-> m.calls, ret |-> m.ret, crashed |-> m.crashed]

\* What ev holds after a step that calls no handler.
Step(op) == Event("none", 0, 0, <<>>, {}, Machine)

\* The ids of the nodes a handler wrote in full or in part, in order.
WrittenIds(calls) ==
    LET W == SelectSeq(calls, LAMBDA c : c.call = "write" /\ c.n > 0)
    IN  [k \in 1..Len(W) |-> W[k].id]

\* The machine after a handler: the pool with nready as the loop leaves it,
\* the process aborted if the handler crashed.
Commit(m, nready, next_pc) ==
    /\ pool' = [m.pool EXCEPT !.nready = nready]
    /\ open' = m.open
    /\ pc'   = IF m.crashed THEN "aborted" ELSE next_pc

\* The for loop's condition with sd < pool.maxfd.
InLoop_StopsEarly == sd < pool.maxfd /\ pool.nready > 0

InLoop == sd <= pool.maxfd /\ pool.nready > 0

\* The pool as main() has it when it enters the loop.
InitialPool ==
    [initPool EXCEPT !.read_set = {WelcomeSocket}, !.maxfd = WelcomeSocket]

Init ==
    /\ pool = InitialPool
    /\ open = {WelcomeSocket}
    /\ end_server = 0
    /\ pc = "top"
    /\ sd = 0
    /\ nchunks = 0
    /\ sent = [fd \in ClientFds \cup ApiFds |-> <<>>]
    /\ ev = Step("init")
    /\ handled = <<>>

\* ------------------------------------------------------------------------
\* main()

intHandler ==
    /\ pc \notin {"done", "aborted"}
    /\ end_server' = 1
    /\ IF pc = "blocked"
       THEN pool' = [pool EXCEPT !.nready = -1] /\ pc' = "check"
       ELSE UNCHANGED <<pool, pc>>
    /\ ev' = Step("intHandler")
    /\ UNCHANGED <<handled, open, sd, nchunks, sent>>

Snapshot ==
    /\ pc = "top"
    /\ pool' = [pool EXCEPT !.ready_read_set  = pool.read_set,
                            !.ready_write_set = pool.write_set]
    /\ pc' = "blocked"
    /\ ev' = Step("snapshot")
    /\ UNCHANGED <<handled, open, end_server, sd, nchunks, sent>>

SelectReturn ==
    /\ pc = "blocked"
    /\ \E rr \in SUBSET {fd \in pool.ready_read_set : fd <= pool.maxfd},
          rw \in SUBSET {fd \in pool.ready_write_set : fd <= pool.maxfd} :
          /\ rr \cup rw # {}
          /\ pool' = [pool EXCEPT !.ready_read_set  = rr,
                                  !.ready_write_set = rw,
                                  !.nready = Cardinality(rr) + Cardinality(rw)]
    /\ pc' = "rd"
    /\ sd' = 0
    /\ ev' = Step("select")
    /\ handled' = <<>>
    /\ UNCHANGED <<open, end_server, nchunks, sent>>

\* select() fails and main() leaves the loop.
SelectFail_Exits ==
    /\ pc = "blocked"
    /\ pool' = [pool EXCEPT !.nready = -1]
    /\ pc' = "cleanup"
    /\ ev' = Step("selectFail")
    /\ UNCHANGED <<handled, open, end_server, sd, nchunks, sent>>

SelectFail ==
    /\ pc = "blocked"
    /\ pool' = [pool EXCEPT !.nready = -1]
    /\ pc' = "check"
    /\ ev' = Step("selectFail")
    /\ UNCHANGED <<handled, open, end_server, sd, nchunks, sent>>

LoopExit ==
    /\ pc = "rd"
    /\ ~InLoop
    /\ pc' = "check"
    /\ sd' = 0
    /\ ev' = Step("loopExit")
    /\ handled' = <<>>
    /\ UNCHANGED <<pool, open, end_server, nchunks, sent>>

\* What accept() can return: -1, or the lowest descriptor that is free.
\* The outcomes of the undefined behaviour a handler of descriptor s can run
\* into: both when a freed node is still linked into the list of s, one
\* (never taken) otherwise.
UBChoices(s) ==
    IF /\ FindConn(s, pool) # 0
       /\ \E k \in 1..Len(ConnOf(s, pool).write_msg) : ConnOf(s, pool).write_msg[k].freed
    THEN UBOutcomes
    ELSE {"stale"}

AcceptResults(fds) ==
    {-1} \cup (IF fds \ open = {} THEN {} ELSE {Min(fds \ open)})

Accept ==
    /\ pc = "rd"
    /\ InLoop
    /\ sd \in pool.ready_read_set
    /\ sd = WelcomeSocket
    /\ \E new_socket \in AcceptResults(ClientFds), ok \in BOOLEAN :
          LET m == acceptNewConnection(WelcomeSocket, Machine, new_socket, ok)
          IN  /\ IF m.ret # 0
                 THEN Commit(m, pool.nready, "rd") /\ sd' = sd + 1
                 ELSE Commit(m, pool.nready - 1, "wr") /\ sd' = sd
              /\ sent' = IF m.ret = 0 THEN [sent EXCEPT ![new_socket] = <<>>] ELSE sent
              /\ ev' = Event("accept", sd, new_socket, <<>>, {}, m)
    /\ handled' = Append(handled, <<sd, "read">>)
    /\ UNCHANGED <<end_server, nchunks>>

ReadResults ==
    {[n |-> -1, data |-> <<>>], [n |-> 0, data |-> <<>>]}
        \cup {[n |-> Len(c), data |-> c] : c \in Chunks}

ProcessData ==
    /\ pc = "rd"
    /\ InLoop
    /\ sd \in pool.ready_read_set
    /\ sd # WelcomeSocket
    /\ \E rd \in ReadResults, ub \in UBChoices(sd),
          fails \in SUBSET (LiveFds(pool) \ {sd}) :
          /\ rd.n > 0 => nchunks < MaxChunks
          /\ rd.n <= 0 => fails = {}
          /\ LET m == processDataFromConnection(sd, Machine, WelcomeSocket, rd,
                                                nchunks + 1, fails, ub)
             IN  /\ Commit(m, pool.nready - 1, "wr")
                 /\ ev' = Event("read", sd, rd.n, rd.data, fails, m)
          /\ nchunks' = IF rd.n > 0 THEN nchunks + 1 ELSE nchunks
    /\ handled' = Append(handled, <<sd, "read">>)
    /\ UNCHANGED <<end_server, sd, sent>>

NotReadable ==
    /\ pc = "rd"
    /\ InLoop
    /\ sd \notin pool.ready_read_set
    /\ pc' = "wr"
    /\ ev' = Step("notReadable")
    /\ UNCHANGED <<handled, pool, open, end_server, sd, nchunks, sent>>

\* The write branch that does not move on to the next descriptor.
Write_NoAdvance ==
    /\ pc = "wr"
    /\ sd \in pool.ready_write_set
    /\ \E ub \in UBChoices(sd),
          res \in [1..(IF FindConn(sd, pool) = 0 THEN 0
                       ELSE Len(ConnOf(sd, pool).write_msg)) -> WriteResults] :
          LET m == writeToClient(sd, Machine, res, ub)
          IN  /\ Commit(m, pool.nready - 1, "rd")
              /\ sent' = IF sd \in DOMAIN sent
                         THEN [sent EXCEPT ![sd] = @ \o WrittenIds(m.calls)]
                         ELSE sent
              /\ ev' = Event("write", sd, 0, <<>>, {}, m)
    /\ sd' = sd
    /\ handled' = Append(handled, <<sd, "write">>)
    /\ UNCHANGED <<end_server, nchunks>>


Write ==
    /\ pc = "wr"
    /\ sd \in pool.ready_write_set
    /\ \E ub \in UBChoices(sd),
          res \in [1..(IF FindConn(sd, pool) = 0 THEN 0
                       ELSE Len(ConnOf(sd, pool).write_msg)) -> WriteResults] :
          LET m == writeToClient(sd, Machine, res, ub)
          IN  /\ Commit(m, pool.nready - 1, "rd")
              /\ sent' = IF sd \in DOMAIN sent
                         THEN [sent EXCEPT ![sd] = @ \o WrittenIds(m.calls)]
                         ELSE sent
              /\ ev' = Event("write", sd, 0, <<>>, {}, m)
    /\ sd' = sd + 1
    /\ handled' = Append(handled, <<sd, "write">>)
    /\ UNCHANGED <<end_server, nchunks>>

NotWritable ==
    /\ pc = "wr"
    /\ sd \notin pool.ready_write_set
    /\ pc' = "rd"
    /\ sd' = sd + 1
    /\ ev' = Step("notWritable")
    /\ UNCHANGED <<handled, pool, open, end_server, nchunks, sent>>

CheckEnd ==
    /\ pc = "check"
    /\ pc' = IF end_server = 0 THEN "top" ELSE "cleanup"
    /\ ev' = Step("checkEnd")
    /\ UNCHANGED <<handled, pool, open, end_server, sd, nchunks, sent>>

Cleanup ==
    /\ pc = "cleanup"
    /\ pool.conn_head # <<>>
    /\ \E ub \in UBChoices(Head(pool.conn_head).fd) :
          LET current_fd == Head(pool.conn_head).fd
              m == removeConn(current_fd, Machine, ub)
          IN  /\ Commit(m, pool.nready, "cleanup")
              /\ ev' = Event("cleanup", current_fd, 0, <<>>, {}, m)
    /\ UNCHANGED <<handled, end_server, sd, nchunks, sent>>

CloseListen ==
    /\ pc = "cleanup"
    /\ pool.conn_head = <<>>
    /\ LET m == CloseFd(WelcomeSocket, Machine)
       IN  /\ Commit(m, pool.nready, "done")
           /\ ev' = Event("closeListen", WelcomeSocket, 0, <<>>, {}, m)
    /\ UNCHANGED <<handled, end_server, sd, nchunks, sent>>

Next ==
    \/ intHandler
    \/ Snapshot
    \/ SelectReturn
    \/ SelectFail
    \/ LoopExit
    \/ Accept
    \/ ProcessData
    \/ NotReadable
    \/ Write
    \/ NotWritable
    \/ CheckEnd
    \/ Cleanup
    \/ CloseListen

Spec == Init /\ [][Next]_vars

\* The steps main() takes by itself: everything but the return of select(),
\* which waits for a client or a signal, and the signal.  accept(), read()
\* and write() are called on descriptors select() reported and return.
ProgramStep ==
    \/ Snapshot
    \/ LoopExit
    \/ Accept
    \/ ProcessData
    \/ NotReadable
    \/ Write
    \/ NotWritable
    \/ CheckEnd
    \/ Cleanup
    \/ CloseListen

\* main() is one sequential thread that is always scheduled again: a step it
\* can take by itself is taken.  Nothing obliges a client to connect, send,
\* or become writable, select() to fail, or a signal to arrive.
SpecFair == Spec /\ WF_vars(ProgramStep)

\* select() returns and reports fd writable.
ReportsWritable(fd) == SelectReturn /\ fd \in pool'.ready_write_set

\* The fair loop: main() takes its own steps, and a descriptor that is in
\* the write set again and again when main() enters select() is reported
\* writable by some return of select().  Nothing obliges a client to connect,
\* send or close, a write to succeed, or a signal to arrive.
SpecDrain ==
    /\ Spec
    /\ WF_vars(ProgramStep)
    /\ \A fd \in ClientFds : SF_vars(ReportsWritable(fd))

\* ------------------------------------------------------------------------
\* The handlers driven one call at a time, each from a pool the event loop
\* can have built: accept on the listening descriptor, read on a connection,
\* a drain of a descriptor that had write interest, and removeConn on a
\* descriptor that is not in the pool.

ApiAccept ==
    /\ pc = "top"
    /\ \E new_socket \in AcceptResults(ApiFds), ok \in BOOLEAN :
          LET m == acceptNewConnection(WelcomeSocket, Machine, new_socket, ok)
          IN  /\ Commit(m, pool.nready, "top")
              /\ sent' = IF m.ret = 0 THEN [sent EXCEPT ![new_socket] = <<>>] ELSE sent
              /\ ev' = Event("accept", WelcomeSocket, new_socket, <<>>, {}, m)
    /\ UNCHANGED <<handled, end_server, sd, nchunks>>

ApiRead ==
    /\ pc = "top"
    /\ \E s \in LiveFds(pool), rd \in ReadResults,
          fails \in SUBSET LiveFds(pool) :
       \E ub \in UBChoices(s) :
          /\ s \notin fails
          /\ rd.n > 0 => nchunks < MaxApiChunks
          /\ rd.n <= 0 => fails = {}
          /\ LET m == processDataFromConnection(s, Machine, WelcomeSocket, rd,
                                                nchunks + 1, fails, ub)
             IN  /\ Commit(m, pool.nready, "top")
                 /\ ev' = Event("read", s, rd.n, rd.data, fails, m)
          /\ nchunks' = IF rd.n > 0 THEN nchunks + 1 ELSE nchunks
    /\ UNCHANGED <<handled, end_server, sd, sent>>

ApiWrite ==
    /\ pc = "top"
    /\ \E s \in pool.write_set :
       \E ub \in UBChoices(s),
          res \in [1..Len(ConnOf(s, pool).write_msg) -> WriteResults] :
          LET m == writeToClient(s, Machine, res, ub)
          IN  /\ Commit(m, pool.nready, "top")
              /\ sent' = [sent EXCEPT ![s] = @ \o WrittenIds(m.calls)]
              /\ ev' = Event("write", s, 0, <<>>, {}, m)
    /\ UNCHANGED <<handled, end_server, sd, nchunks>>

ApiRemove ==
    /\ pc = "top"
    /\ \E s \in ApiFds \ LiveFds(pool) :
       \E ub \in UBChoices(s) :
          LET m == removeConn(s, Machine, ub)
          IN  /\ Commit(m, pool.nready, "top")
              /\ ev' = Event("removeConn", s, 0, <<>>, {}, m)
    /\ UNCHANGED <<handled, end_server, sd, nchunks, sent>>

NextApi == ApiAccept \/ ApiRead \/ ApiWrite \/ ApiRemove

SpecApi == Init /\ [][NextApi]_vars

\* ------------------------------------------------------------------------
\* Properties

Frees(calls)  == SelectSeq(calls, LAMBDA c : c.call = "free")

Closes(calls) == SelectSeq(calls, LAMBDA c : c.call = "close")

Writes(calls) == SelectSeq(calls, LAMBDA c : c.call = "write")

\* The fields of the pool that outlive a pass of the loop.
PoolView(p) ==
    [conn_head |-> p.conn_head, read_set |-> p.read_set, write_set |-> p.write_set,
     maxfd |-> p.maxfd, nr_conns |-> p.nr_conns]

\* C1: between handlers, the descriptor of every live connection is in
\* write_set if and only if the connection's outbound list is not empty.
C1_WriteInterest ==
    pc # "aborted" =>
        \A i \in 1..Len(pool.conn_head) :
            (pool.conn_head[i].fd \in pool.write_set)
                <=> (pool.conn_head[i].write_msg # <<>>)

\* C2: whenever the loop blocks in select(), maxfd is the largest of the
\* listening descriptor and the descriptors of the live connections.
C2_MaxFd ==
    pc = "blocked" => pool.maxfd = Max({WelcomeSocket} \cup LiveFds(pool))

\* The loop blocks with the second client descriptor as the only connection:
\* the first was accepted and removed, the maximum was raised and kept.
C2_Witness ==
    /\ pc = "blocked"
    /\ LiveFds(pool) = {WelcomeSocket + 2}
    /\ pool.maxfd = WelcomeSocket + 2

\* The upper-case image of a chunk, byte by byte.
ExpectedUpper(data) ==
    [j \in 1..Len(data) |->
        IF data[j] = "a" THEN "A" ELSE IF data[j] = "b" THEN "B" ELSE data[j]]

\* C3: a read that returns a chunk of positive length, with no allocation
\* failing, appends exactly one node holding the upper-cased chunk to the
\* tail of the list of every other connection and leaves the sender's list,
\* and every node already queued, as they were.
C3_Broadcast ==
    [][(ev'.op = "read" /\ ev'.n > 0 /\ ev'.fails = {}) =>
          /\ Len(pool'.conn_head) = Len(pool.conn_head)
          /\ \A i \in 1..Len(pool.conn_head) :
                LET old == pool.conn_head[i]
                    new == pool'.conn_head[i]
                    n   == Len(old.write_msg)
                IN  /\ new.fd = old.fd
                    /\ IF old.fd = ev'.sd
                       THEN new.write_msg = old.write_msg
                       ELSE /\ Len(new.write_msg) = n + 1
                            /\ SubSeq(new.write_msg, 1, n) = old.write_msg
                            /\ new.write_msg[n + 1].message = ExpectedUpper(ev'.data)
                            /\ new.write_msg[n + 1].size = ev'.n
                            /\ ~new.write_msg[n + 1].freed
      ]_vars

\* A chunk with a lower-case byte was read from one of three connections, and
\* one of the two recipients already had a node queued.
C3_Witness ==
    /\ ev.op = "read" /\ ev.n > 0 /\ ev.fails = {}
    /\ \E j \in 1..Len(ev.data) : ev.data[j] # ExpectedUpper(ev.data)[j]
    /\ Len(pool.conn_head) = 3
    /\ \E i \in 1..Len(pool.conn_head) : Len(pool.conn_head[i].write_msg) = 2
    /\ \E i \in 1..Len(pool.conn_head) : Len(pool.conn_head[i].write_msg) = 1

\* C4: when a write fails during a drain of a connection's list, the
\* connection is out of the pool and its descriptor closed by the end of the
\* dispatch.
C4_WriteFailureTerminal ==
    (ev.op = "write" /\ \E k \in 1..Len(ev.calls) :
                            ev.calls[k].call = "write" /\ ev.calls[k].n <= 0)
        => (ev.sd \notin LiveFds(pool) /\ ev.sd \notin open)

\* The step that removed a connection with removeConn returning 0.
Removal(e) ==
    /\ e.op \in {"read", "cleanup"}
    /\ e.op = "read" => e.n = 0
    /\ ~e.crashed
    /\ e.ret = 0

\* C5: a successful removeConn of a live connection releases every node of
\* its list exactly once (none was released before, none is left), takes the
\* connection out of the pool, clears its descriptor from read_set and
\* write_set, and closes the descriptor exactly once.
C5_CleanupOnRemoval ==
    [][Removal(ev') =>
          LET old == ConnOf(ev'.sd, pool).write_msg
              fr  == Frees(ev'.calls)
          IN  /\ Len(fr) = Len(old)
              /\ \A k \in 1..Len(fr) : fr[k].id = old[k].id /\ ~fr[k].bad
              /\ ev'.sd \notin LiveFds(pool')
              /\ ev'.sd \notin pool'.read_set \cup pool'.write_set
              /\ Closes(ev'.calls) = <<Call("close", ev'.sd, 0, 0, FALSE)>>
      ]_vars

\* C6: removeConn of a descriptor that is not in the pool returns -1, makes
\* no library call and leaves the pool and the open descriptors as they were.
C6_IdempotentRemoval ==
    [][(ev'.op = "removeConn" /\ ev'.sd \notin LiveFds(pool)) =>
          /\ ev'.ret = -1
          /\ ev'.calls = <<>>
          /\ pool' = pool
          /\ open' = open
      ]_vars

\* removeConn was called for a descriptor that was a connection before and is
\* closed now, while another connection holds queued nodes.
C6_Witness ==
    /\ ev.op = "removeConn" /\ ev.ret = -1
    /\ ev.sd \notin open
    /\ ev.sd < Max({WelcomeSocket} \cup LiveFds(pool))
    /\ \E i \in 1..Len(pool.conn_head) : pool.conn_head[i].write_msg # <<>>

\* C7: the nodes written to a connection's socket are written in the order
\* in which they were queued, each after all those written before it.
C7_Fifo ==
    \A fd \in DOMAIN sent :
        \A j, k \in 1..Len(sent[fd]) : j < k => sent[fd][j] < sent[fd][k]

\* C8: when read on a live connection returns 0, that connection is removed
\* and its descriptor closed, maxfd is recomputed, and every other connection
\* keeps its place, its descriptor, its list and its bits in both sets.
C8_PeerClose ==
    [][(ev'.op = "read" /\ ev'.n = 0) =>
          /\ ev'.sd \notin open'
          /\ pool'.conn_head = Unlink(pool.conn_head, FindConn(ev'.sd, pool))
          /\ pool'.read_set  = pool.read_set \ {ev'.sd}
          /\ pool'.write_set = pool.write_set \ {ev'.sd}
          /\ pool'.nr_conns  = pool.nr_conns - 1
          /\ pool'.maxfd     = Max({WelcomeSocket} \cup LiveFds(pool'))
      ]_vars

\* C9: when no data was ever read and a peer close removes the last
\* connection, the pool is what it was when main() entered the loop and only
\* the listening descriptor is open.
C9_RoundTrip ==
    (ev.op = "read" /\ ev.n = 0 /\ nchunks = 0 /\ pool.conn_head = <<>>)
        => (PoolView(pool) = PoolView(InitialPool) /\ open = {WelcomeSocket})

\* A peer close has just removed the only connection, and no data was read.
C9_Witness ==
    /\ ev.op = "read" /\ ev.n = 0 /\ nchunks = 0
    /\ pool.conn_head = <<>>
    /\ ev.sd = WelcomeSocket + 1
    /\ Closes(ev.calls) # <<>>

\* C10: once the loop has seen end_server, every removal of the shutdown
\* completes: it takes the connection out of the pool, closes its descriptor
\* once and writes nothing; the listening descriptor is closed only when no
\* connection is left, and the process ends with an empty pool.
C10_OrderlyShutdown ==
    /\ ev.op = "cleanup" =>
          /\ ~ev.crashed
          /\ ev.ret = 0
          /\ ev.sd \notin LiveFds(pool)
          /\ Closes(ev.calls) = <<Call("close", ev.sd, 0, 0, FALSE)>>
          /\ Writes(ev.calls) = <<>>
    /\ WelcomeSocket \notin open => (pool.conn_head = <<>> /\ open = {})
    /\ pc = "done" => (pool.conn_head = <<>> /\ pool.nr_conns = 0 /\ open = {})

\* C11: once end_server is set by the signal, whatever main() was doing, the
\* loop reaches the shutdown (the cleanup after the loop) with no further
\* client event.
C11_ShutdownLiveness ==
    (end_server = 1) ~> (pc \in {"cleanup", "done"})

\* C12: no node is written to its connection's socket more than once.
C12_AtMostOnce ==
    \A fd \in DOMAIN sent :
        \A j, k \in 1..Len(sent[fd]) : j # k => sent[fd][j] # sent[fd][k]

\* C13: a node queued for a chunk has the chunk's length, and every write
\* after which writeToClient releases the node as delivered wrote as many
\* bytes as the node holds.
C13_LengthPreserving ==
    [][/\ (ev'.op = "read" /\ ev'.n > 0) =>
             \A i \in 1..Len(pool'.conn_head) :
                \A k \in 1..Len(pool'.conn_head[i].write_msg) :
                    pool'.conn_head[i].write_msg[k].id = nchunks'
                        => pool'.conn_head[i].write_msg[k].size = Len(ev'.data)
       /\ ev'.op = "write" =>
             LET old == ConnOf(ev'.sd, pool).write_msg
                 wr  == Writes(ev'.calls)
             IN  \A c \in 1..Len(wr) :
                    wr[c].n > 0 =>
                        \E k \in 1..Len(old) :
                            old[k].id = wr[c].id /\ wr[c].n = old[k].size
      ]_vars

\* C14: a read that returns a chunk while createMessage fails for some
\* recipients leaves the lists and the write interest of exactly those
\* recipients (and of the sender) as they were, appends one node to the list
\* of every other connection and sets its write interest; no connection
\* leaves the pool and the handler completes.
C14_BestEffortBroadcast ==
    [][(ev'.op = "read" /\ ev'.n > 0 /\ ev'.fails # {}) =>
          /\ ~ev'.crashed
          /\ Len(pool'.conn_head) = Len(pool.conn_head)
          /\ open' = open
          /\ pool'.read_set = pool.read_set
          /\ \A i \in 1..Len(pool.conn_head) :
                LET old == pool.conn_head[i]
                    new == pool'.conn_head[i]
                    n   == Len(old.write_msg)
                IN  /\ new.fd = old.fd
                    /\ IF old.fd = ev'.sd \/ old.fd \in ev'.fails
                       THEN /\ new.write_msg = old.write_msg
                            /\ (old.fd \in pool'.write_set) <=> (old.fd \in pool.write_set)
                       ELSE /\ Len(new.write_msg) = n + 1
                            /\ SubSeq(new.write_msg, 1, n) = old.write_msg
                            /\ new.write_msg[n + 1].id = nchunks'
                            /\ old.fd \in pool'.write_set
      ]_vars

\* A chunk was read from the connection in the middle of a list of three;
\* createMessage failed for the connection at the head of the list, which had
\* no write interest, and the connection at the end got its node.
C14_Witness ==
    /\ ev.op = "read" /\ ev.n > 0
    /\ Len(pool.conn_head) = 3
    /\ ev.sd = pool.conn_head[2].fd
    /\ ev.fails = {pool.conn_head[1].fd}
    /\ pool.conn_head[1].write_msg = <<>>
    /\ pool.conn_head[1].fd \notin pool.write_set
    /\ pool.conn_head[3].write_msg # <<>>
    /\ pool.conn_head[3].write_msg[Len(pool.conn_head[3].write_msg)].id = nchunks

\* The write calls of a handler that returned no byte count above 0.
FailedWrites(calls) == SelectSeq(calls, LAMBDA c : c.call = "write" /\ c.n <= 0)

\* C15: writeToClient returns -1 exactly when the connection is not in the
\* pool or a write of the drain failed, and 0 otherwise.
C15_DrainResult ==
    (ev.op = "write" /\ ~ev.crashed) =>
        ((ev.ret = -1) <=> (ev.sd \notin LiveFds(pool) \/ FailedWrites(ev.calls) # <<>>))

\* C16: after a drain that failed at node k the connection's list is nodes
\* k..n of the list before the drain, and no node of any list has been
\* released.
C16_QueueIntegrity ==
    [][/\ (ev'.op = "write" /\ ~ev'.crashed /\ FailedWrites(ev'.calls) # <<>>) =>
             LET old == ConnOf(ev'.sd, pool).write_msg
                 k   == Len(WrittenIds(ev'.calls)) + 1
             IN  ConnOf(ev'.sd, pool').write_msg = SubSeq(old, k, Len(old))
       /\ \A i \in 1..Len(pool'.conn_head) :
             \A k \in 1..Len(pool'.conn_head[i].write_msg) :
                ~pool'.conn_head[i].write_msg[k].freed
      ]_vars

\* C17: when select() returns a negative value, no handler runs, the pool,
\* the open descriptors and what was written stay as they were, and main()
\* is at the test of end_server; from there it goes to the top of the loop
\* unless end_server is set, with the pool still unchanged.
C17_SelectFailTransient ==
    [][/\ (pc = "blocked" /\ pool'.nready < 0) =>
             /\ pc' = "check"
             /\ ev'.op = "none"
             /\ PoolView(pool') = PoolView(pool)
             /\ open' = open
             /\ sent' = sent
       /\ (pc = "check" /\ pc' # "check") =>
             /\ pc' = IF end_server = 0 THEN "top" ELSE "cleanup"
             /\ pool' = pool
             /\ open' = open
      ]_vars

\* select() failed, with no signal, while two connections were live and one
\* had a node queued and write interest.
C17_Witness ==
    /\ pc = "check"
    /\ pool.nready < 0
    /\ end_server = 0
    /\ Len(pool.conn_head) = 2
    /\ \E i \in 1..2 : /\ pool.conn_head[i].write_msg # <<>>
                        /\ pool.conn_head[i].fd \in pool.write_set

\* C18: when read on a live connection returns a negative value, the handler
\* makes no call, and the pool (every connection, list, read_set, write_set,
\* maxfd, nr_conns) and the open descriptors stay as they were.
C18_ReadErrorFrame ==
    [][(ev'.op = "read" /\ ev'.n < 0 /\ ev'.sd \in LiveFds(pool)) =>
          /\ ~ev'.crashed
          /\ ev'.calls = <<>>
          /\ PoolView(pool') = PoolView(pool)
          /\ open' = open
          /\ ev'.sd \in LiveFds(pool') /\ ev'.sd \in open' /\ ev'.sd \in pool'.read_set
      ]_vars

\* read returned -1 on a connection that holds a queued node.
C18_Witness ==
    /\ ev.op = "read" /\ ev.n < 0
    /\ ev.sd \in LiveFds(pool)
    /\ ConnOf(ev.sd, pool).write_msg # <<>>
    /\ Len(pool.conn_head) = 2

\* C19: when accept() returns a descriptor and addConn fails, the pool is
\* unchanged, the handler returns -1, and the descriptor is closed by exactly
\* one close call, made on the open descriptor.
C19_FailedAdd ==
    [][(ev'.op = "accept" /\ ev'.n >= 0 /\ ev'.ret # 0) =>
          /\ PoolView(pool') = PoolView(pool)
          /\ open' = open
          /\ Closes(ev'.calls) = <<Call("close", ev'.n, 0, 0, FALSE)>>
      ]_vars

\* C20: the handlers main() calls in one pass of the for loop are called on
\* descriptors select() reported, in ascending order of descriptor, each at
\* most once, and the read (or accept) of a descriptor before its write.
C20_ServiceOrder ==
    /\ \A j, k \in 1..Len(handled) :
          j < k => \/ handled[j][1] < handled[k][1]
                   \/ /\ handled[j][1] = handled[k][1]
                      /\ handled[j][2] = "read" /\ handled[k][2] = "write"
    /\ \A k \in 1..Len(handled) :
          handled[k][1] \in (IF handled[k][2] = "read" THEN pool.ready_read_set
                                                      ELSE pool.ready_write_set)

\* One pass accepted on the listening descriptor, read and wrote the first
\* client descriptor, and then handled the second one.
C20_Witness ==
    /\ Len(handled) = 4
    /\ handled[1] = <<WelcomeSocket, "read">>
    /\ handled[2] = <<WelcomeSocket + 1, "read">>
    /\ handled[3] = <<WelcomeSocket + 1, "write">>
    /\ handled[4][1] = WelcomeSocket + 2

\* C21: whenever main() waits in select(), read_set is the listening
\* descriptor and the descriptors of the live connections, write_set holds
\* descriptors of live connections only, and every descriptor of either set
\* is open.
C21_InterestSets ==
    pc = "blocked" =>
        /\ pool.read_set = {WelcomeSocket} \cup LiveFds(pool)
        /\ pool.write_set \subseteq LiveFds(pool)
        /\ (pool.read_set \cup pool.write_set) \subseteq open

\* main() waits in select() after the first client descriptor was removed
\* and closed, while the second holds a queued node and write interest.
C21_Witness ==
    /\ pc = "blocked"
    /\ LiveFds(pool) = {WelcomeSocket + 2}
    /\ (WelcomeSocket + 1) \notin open
    /\ (WelcomeSocket + 2) \in pool.write_set
    /\ nchunks > 0

\* The step called removeConn.
RemoveCall(e) == e.op \in {"cleanup", "removeConn"} \/ (e.op = "read" /\ e.n = 0)

\* C22: nr_conns is the length of the connection list and is not negative;
\* an accept that adds a connection raises it by 1, a removeConn that returns
\* 0 lowers it by 1, and every other step, a failed add and a removeConn that
\* returns -1 included, leaves it as it was.
C22_ConnCount ==
    [][/\ pool'.nr_conns = Len(pool'.conn_head)
       /\ pool'.nr_conns >= 0
       /\ pool'.nr_conns = pool.nr_conns +
             (IF ev'.op = "accept" /\ ev'.ret = 0 THEN 1
              ELSE IF RemoveCall(ev') /\ ev'.ret = 0 /\ ~ev'.crashed THEN -1
              ELSE 0)
      ]_vars

\* A removeConn that found nothing returned -1 after two connections were
\* added and a peer close had removed the first of them.
C22_Witness ==
    /\ ev.op = "removeConn" /\ ev.ret = -1
    /\ pool.nr_conns = 1
    /\ Cardinality(ApiFds \ open) = MaxApiClients - 1
    /\ pool.conn_head[1].fd = WelcomeSocket + 2

\* C23: when the read handling of a descriptor removed its connection on a
\* peer close and the write handling of the same descriptor follows in the
\* same pass, writeToClient makes no call (no write, no free, no close) and
\* changes nothing of the pool or the open descriptors; main() lowers
\* nready by one.
C23_NoIoAfterRemoval ==
    [][(pc = "wr" /\ ev.op = "read" /\ ev.n = 0 /\ ev'.op = "write") =>
          /\ ev'.sd = ev.sd
          /\ ev'.sd \notin open
          /\ ~ev'.crashed
          /\ ev'.calls = <<>>
          /\ PoolView(pool') = PoolView(pool)
          /\ pool'.nready = pool.nready - 1
          /\ open' = open
          /\ sent' = sent
      ]_vars

\* The write handling ran for a descriptor that the read handling of the
\* same pass had removed and closed, while the other connection holds nodes.
C23_Witness ==
    /\ ev.op = "write" /\ ev.ret = -1
    /\ Len(handled) >= 2
    /\ handled[Len(handled) - 1] = <<ev.sd, "read">>
    /\ ev.sd \notin open
    /\ \E i \in 1..Len(pool.conn_head) : pool.conn_head[i].write_msg # <<>>

\* The descriptors of the handler calls of one kind in the current pass.
Dispatched(kind) == {handled[k][1] : k \in {j \in 1..Len(handled) : handled[j][2] = kind}}

\* C24: during a pass only descriptors of the snapshot select() returned are
\* handled, each snapshot descriptor the for loop has gone past was handled,
\* and nready is not negative; when the for loop ends, the descriptors
\* handled for read (or accept) and for write are exactly the two snapshots.
C24_SnapshotDispatch ==
    pc \in {"rd", "wr"} =>
        /\ pool.nready >= 0
        /\ Dispatched("read") \subseteq pool.ready_read_set
        /\ Dispatched("write") \subseteq pool.ready_write_set
        /\ \A fd \in pool.ready_read_set :
              (fd < sd \/ (fd = sd /\ pc = "wr")) => fd \in Dispatched("read")
        /\ \A fd \in pool.ready_write_set : fd < sd => fd \in Dispatched("write")
        /\ (pc = "rd" /\ ~InLoop) =>
              /\ Dispatched("read") = pool.ready_read_set
              /\ Dispatched("write") = pool.ready_write_set

\* The for loop has ended a pass in which an accept failed (nready is left
\* above 0), a peer close lowered maxfd, and the descriptor that was maxfd
\* at select() was handled for read and for write.
C24_Witness ==
    /\ pc = "rd" /\ ~InLoop
    /\ pool.nready > 0
    /\ handled = <<<<WelcomeSocket, "read">>, <<WelcomeSocket + 1, "write">>,
                   <<WelcomeSocket + 2, "read">>, <<WelcomeSocket + 2, "write">>>>
    /\ pool.maxfd = WelcomeSocket + 1

\* The process runs, and the node of chunk id is queued for the live
\* connection fd and has not been released.
Pending(fd, id) ==
    /\ pc # "aborted"
    /\ fd \in LiveFds(pool)
    /\ \E k \in 1..Len(ConnOf(fd, pool).write_msg) :
          /\ ConnOf(fd, pool).write_msg[k].id = id
          /\ ~ConnOf(fd, pool).write_msg[k].freed

\* C25: under the fair loop every node queued for a live connection is
\* eventually written and released by a drain, or released by the removal of
\* the connection.
C25_NoStranding ==
    \A fd \in ClientFds : \A id \in 1..MaxChunks :
        Pending(fd, id) ~> ~Pending(fd, id)

====
